---- MODULE Spec2Model ----
(***************************************************************************)
(* EV charger electrical sizing calculator (luminaralearn/electrical_specs). *)
(*                                                                         *)
(* Two programs are modelled:                                              *)
(*   charger_specs.py     the parameterised calculator                     *)
(*   electrical_specs.py  the calculator with fixed constants              *)
(*                                                                         *)
(* Numbers.  The programs compute in binary floating point.  A current is  *)
(* held here as a record (Float) of                                        *)
(*   n, d, root3  its real value, the product of n over the product of d,  *)
(*                divided by sqrt(3) when root3;                           *)
(*   units        that value in 1/Scale ampere (Scale = 10^5), truncated;  *)
(*   exact        whether the program computes it without rounding error;  *)
(*   side         where the binary value lies when the real value is a     *)
(*                mark (a rating, a multiple of 100, the middle between    *)
(*                two tenths): -1 below, 0 on it, 1 above.                 *)
(* Every comparison and rounding is decided on the real value; only on a   *)
(* mark does the side decide.  A binary value computed with rounding error *)
(* lies on either side of a mark, and both sides are outcomes of the call: *)
(* 350000 / 750 * 1.35 is 630.0000000000001 and takes the 800 A breaker,   *)
(* 128.5 * 0.9 is shown as 115.7 and 405.5 * 0.9 as 364.9.                 *)
(* The factors (safety, diversity, efficiency, power factor) are integer   *)
(* hundredths.  A value the programs round to one decimal is an integer    *)
(* count of tenths.  Cable cross-sections and ampacities are tenths of mm2 *)
(* and tenths of ampere, because the tables hold 1.5 mm2 and 17.5 A.       *)
(***************************************************************************)
EXTENDS Integers, Sequences, FiniteSets, TLC

(***************************************************************************)
(* Arithmetic helpers                                                      *)
(***************************************************************************)

\* Resolution of an unrounded current: units per ampere.
Scale == 100 * 1000

\* floor(a * b / c) without forming a * b (machine integers are 32 bits).
MulDiv(a, b, c) == (a \div c) * b + ((a % c) * b) \div c

\* (a * b) % c without forming a * b.
MulMod(a, b, c) == ((a % c) * b) % c

\* floor((q + r / d) / math.sqrt(3)) for 0 <= r < d: 29681/51409 is a
\* continued-fraction convergent of 1/sqrt(3), above it by less than
\* 4e-10 of its value.
DivSqrt3(q, r, d) ==
    MulDiv(q, 29681, 51409)
        + (MulMod(q, 29681, 51409) * d + r * 29681) \div (51409 * d)

RECURSIVE Prod(_, _)
\* The product of the first k factors.
Prod(factors, k) ==
    IF k = 0 THEN 1 ELSE Prod(factors, k - 1) * factors[k]

\* Naturals of any size, for the comparisons that involve sqrt(3): a
\* sequence of digits of base Base, the least significant first.
Base == 100 * 100

RECURSIVE BigFromInt(_)
BigFromInt(n) ==
    IF n < Base THEN <<n>> ELSE <<n % Base>> \o BigFromInt(n \div Base)

RECURSIVE BigCarry(_, _, _)
\* The digits of the number whose coefficients, from position i on, are
\* coef[i], coef[i + 1], ... with a carry coming in.
BigCarry(coef, i, carry) ==
    IF i > Len(coef)
    THEN IF carry = 0 THEN <<>> ELSE BigFromInt(carry)
    ELSE <<(coef[i] + carry) % Base>>
            \o BigCarry(coef, i + 1, (coef[i] + carry) \div Base)

RECURSIVE BigDot(_, _, _, _)
\* a[lo] * b[k + 1 - lo] + ... + a[hi] * b[k + 1 - hi]
BigDot(a, b, k, range) ==
    IF range[1] > range[2] THEN 0
    ELSE a[range[1]] * b[k + 1 - range[1]]
            + BigDot(a, b, k, <<range[1] + 1, range[2]>>)

BigMul(a, b) ==
    LET coef == [k \in 1..(Len(a) + Len(b) - 1) |->
                   BigDot(a, b, k,
                          <<IF k - Len(b) + 1 > 1 THEN k - Len(b) + 1 ELSE 1,
                            IF k < Len(a) THEN k ELSE Len(a)>>)]
    IN  BigCarry(coef, 1, 0)

RECURSIVE BigProd(_, _)
\* The product of the first k factors.
BigProd(factors, k) ==
    IF k = 0 THEN <<1>>
    ELSE BigMul(BigProd(factors, k - 1), BigFromInt(factors[k]))

RECURSIVE BigTrim(_)
BigTrim(a) ==
    IF Len(a) > 1 /\ a[Len(a)] = 0
    THEN BigTrim(SubSeq(a, 1, Len(a) - 1)) ELSE a

RECURSIVE BigCmpAt(_, _, _)
BigCmpAt(a, b, i) ==
    IF i = 0 THEN 0
    ELSE IF a[i] > b[i] THEN 1
    ELSE IF a[i] < b[i] THEN -1
    ELSE BigCmpAt(a, b, i - 1)

\* -1, 0 or 1 as x is below, equal to or above y.
BigCmp(x, y) ==
    LET a == BigTrim(x)
        b == BigTrim(y)
    IN  IF Len(a) > Len(b) THEN 1
        ELSE IF Len(a) < Len(b) THEN -1
        ELSE BigCmpAt(a, b, Len(a))

RECURSIVE GCD(_, _)
GCD(a, b) == IF b = 0 THEN a ELSE GCD(b, a % b)

RECURSIVE IsPowerOfTwo(_)
IsPowerOfTwo(m) == m = 1 \/ (m > 1 /\ m % 2 = 0 /\ IsPowerOfTwo(m \div 2))

\* n / d is a binary fraction: the float division n / d, and the float
\* nearest to the decimal n / d, carry no rounding error.
Dyadic(n, d) == IsPowerOfTwo(d \div GCD(n, d))

(***************************************************************************)
(* Binary floats                                                           *)
(***************************************************************************)

Float(n, d, root3, units, exact) ==
    [n |-> n, d |-> d, root3 |-> root3, units |-> units, exact |-> exact,
     side |-> 0]

\* -1, 0 or 1 as the real value of v is below, equal to or above bn / bd.
\* With sqrt(3): n / (d * sqrt(3)) against bn / bd is (n * bd)^2 against
\* 3 * (d * bn)^2.
Sign(v, bn, bd) ==
    IF v.root3
    THEN LET l == BigProd(v.n \o <<bd>>, Len(v.n) + 1)
             r == BigProd(v.d \o <<bn>>, Len(v.d) + 1)
         IN  BigCmp(BigMul(l, l), BigMul(<<3>>, BigMul(r, r)))
    ELSE LET l == Prod(v.n, Len(v.n)) * bd
             r == Prod(v.d, Len(v.d)) * bn
         IN  IF l > r THEN 1 ELSE IF l < r THEN -1 ELSE 0

\* Sign, decided from the units where they are two or more away from the
\* mark bn / bd (the units are off the real value by less than 1.2).
Cmp(v, bn, bd) ==
    LET mark == MulDiv(bn, Scale, bd)
    IN  IF v.units >= mark + 2 THEN 1
        ELSE IF v.units + 2 <= mark THEN -1
        ELSE Sign(v, bn, bd)

\* The binary value of v is above bn / bd.
Above(v, bn, bd) ==
    LET c == Cmp(v, bn, bd)
    IN  c > 0 \/ (c = 0 /\ v.side > 0)

\* The binary value of v is below bn / bd.
Below(v, bn, bd) ==
    LET c == Cmp(v, bn, bd)
    IN  c < 0 \/ (c = 0 /\ v.side < 0)

\* round(v, 1), in tenths.  Python rounds the binary value correctly: a
\* value on the middle between two tenths goes to the even one.
Round1(v) ==
    LET q == v.units \div (Scale \div 10)
    IN  IF Above(v, 2 * q + 1, 20) THEN q + 1
        ELSE IF Below(v, 2 * q + 1, 20) THEN q
        ELSE IF q % 2 = 0 THEN q ELSE q + 1

\* math.ceil(v / 100) * 100
CeilHundred(v) ==
    LET q == v.units \div (100 * Scale)
    IN  100 * (CHOOSE k \in q..(q + 2) :
                  /\ ~Above(v, 100 * k, 1)
                  /\ \A j \in q..(k - 1) : Above(v, 100 * j, 1))
\* The failure value (Python's None).
None == [ok |-> FALSE]

(***************************************************************************)
(* Standards tables (identical in both programs)                           *)
(***************************************************************************)

\* A ladder that goes on above the largest busbar of the catalogue.
STANDARD_BREAKERS_extended ==
    <<6, 10, 16, 20, 25, 32, 40, 50, 63, 80, 100, 125, 160, 200,
      250, 315, 400, 500, 630, 800, 1000, 1200, 1600, 2000, 4000>>

STANDARD_BREAKERS ==
    <<6, 10, 16, 20, 25, 32, 40, 50, 63, 80, 100, 125, 160, 200,
      250, 315, 400, 500, 630, 800, 1000, 1200, 1600, 2000>>

\* Cross-sections in tenths of mm2, as sorted(CABLE_CAPACITY[cores].items())
\* lists them.
CableSizes ==
    <<15, 25, 40, 60, 100, 160, 250, 350, 500, 700, 950, 1200, 1500, 1850,
      2400, 3000, 4000, 5000, 6300>>

\* Ampacities in tenths of an ampere, aligned with CableSizes.
CABLE_CAPACITY(cores) ==
    CASE cores = "1C" ->
           <<175, 230, 300, 390, 530, 700, 920, 1150, 1420, 1790, 2170, 2540,
             2920, 3360, 3920, 4510, 5270, 6000, 6960>>
      [] cores = "2C" ->
           <<150, 200, 260, 340, 460, 610, 800, 990, 1230, 1550, 1890, 2210,
             2550, 2920, 3520, 4090, 4890, 5690, 6740>>
      [] cores = "3C" ->
           <<135, 175, 230, 300, 400, 530, 700, 870, 1080, 1360, 1660, 1940,
             2250, 2600, 3100, 3600, 4290, 4950, 5880>>
      [] cores = "4C" ->
           <<120, 160, 210, 270, 370, 490, 640, 800, 990, 1250, 1520, 1780,
             2070, 2400, 2870, 3340, 4000, 4640, 5550>>

MSB_CONFIGS ==
    << [Amps |-> 100,  Dimensions |-> "300x200x150",   Busbar |-> 100],
       [Amps |-> 200,  Dimensions |-> "400x250x200",   Busbar |-> 200],
       [Amps |-> 400,  Dimensions |-> "600x300x250",   Busbar |-> 400],
       [Amps |-> 600,  Dimensions |-> "800x400x300",   Busbar |-> 600],
       [Amps |-> 800,  Dimensions |-> "1000x500x350",  Busbar |-> 800],
       [Amps |-> 1000, Dimensions |-> "1200x600x400",  Busbar |-> 1000],
       [Amps |-> 1200, Dimensions |-> "1500x700x450",  Busbar |-> 1200],
       [Amps |-> 1600, Dimensions |-> "1800x800x500",  Busbar |-> 1600],
       [Amps |-> 2000, Dimensions |-> "2000x1000x600", Busbar |-> 2000],
       [Amps |-> 2500, Dimensions |-> "2200x1200x700", Busbar |-> 2500],
       [Amps |-> 3000, Dimensions |-> "2500x1500x800", Busbar |-> 3000] >>

\* A voltage table whose upper DC row is so high that a 300 kW charger
\* draws less than a 150 kW one.
VOLTAGE_steep ==
    [AC |-> [c \in {7, 22} |-> IF c = 7 THEN 230 ELSE 400],
     DC |-> [c \in {25, 50, 75, 100, 120, 150, 300, 350} |->
                IF c \in {300, 350} THEN 1500 ELSE 500]]

\* electrical_specs.py: nominal voltage by charger type and capacity.  A
\* capacity that is no key of the table has no voltage (KeyError).
VOLTAGE ==
    [AC |-> [c \in {7, 22} |-> IF c = 7 THEN 230 ELSE 400],
     DC |-> [c \in {25, 50, 75, 100, 120, 150, 300, 350} |->
                IF c \in {300, 350} THEN 750 ELSE 500]]

\* The capacities the input menu offers (st.selectbox), by charger type.
MenuCapacities(charger_type) ==
    IF charger_type = "AC" THEN {7, 22}
    ELSE {25, 50, 75, 100, 120, 150, 300, 350}

(***************************************************************************)
(* Selections from the tables                                              *)
(***************************************************************************)

Min(S) == CHOOSE x \in S : \A y \in S : x <= y

InLadder(b) == \E i \in DOMAIN STANDARD_BREAKERS : STANDARD_BREAKERS[i] = b

\* The real value of v is a mark: the middle between two tenths, a rating
\* of the ladder or a multiple of 100 (the busbar ratings are such).
OnMark(v) ==
    /\ ~v.root3
    /\ v.units % (Scale \div 20) = 0
    /\ LET t == v.units \div (Scale \div 20)
       IN  /\ \/ t % 2 = 1
              \/ t % 20 = 0 /\ (InLadder(t \div 20) \/ t % 2000 = 0)
           /\ Sign(v, t, 20) = 0

\* The sides the binary value of v can lie on.
Sides(v) == IF v.exact \/ ~OnMark(v) THEN {0} ELSE {-1, 1}

WithSide(v, s) == [v EXCEPT !.side = s]

\* n / d amperes.
Amps(n, d) == Float(<<n>>, <<d>>, FALSE, MulDiv(n, Scale, d), FALSE)

\* The three-phase current without the division by sqrt(3).
AmpsNoRoot3(n, d) == Float(<<n>>, <<d>>, FALSE, MulDiv(n, Scale, d), FALSE)

\* n / (d * math.sqrt(3)) amperes.
AmpsRoot3(n, d) ==
    Float(<<n>>, <<d>>, TRUE,
          DivSqrt3(MulDiv(n, Scale, d), MulMod(n, Scale, d), d), FALSE)

\* The AC-side input current of a DC charger:
\*   ac_power   = capacity / (dc_efficiency * power_factor)
\*   ac_current = ac_power * 1000 / (ac_voltage * math.sqrt(3))
\* with kw100 = capacity (kW) * 100 * any factor applied to the current,
\* and effpf = efficiency * power factor in 1/10000.  The quotient by
\* effpf * ac_voltage is formed in two steps, the remainder of the first
\* carried into the second.
AcInputAmps(kw100, effpf, ac_voltage) ==
    LET a == MulDiv(kw100 * 1000, Scale, effpf)
        e == (100 * MulMod(kw100 * 1000, Scale, effpf)) \div effpf
        low == (a % ac_voltage) * 100 + e
    IN  Float(<<kw100, 1000, 100>>, <<effpf, ac_voltage>>, TRUE,
              DivSqrt3((a \div ac_voltage) * 100 + low \div ac_voltage,
                       low % ac_voltage, ac_voltage),
              FALSE)

\* A selection that passes over a rating equal to the required current.
breaker_size_strict(required) ==
    LET fit == {i \in DOMAIN STANDARD_BREAKERS :
                  Below(required, STANDARD_BREAKERS[i], 1)}
    IN  IF fit = {} THEN 0 ELSE STANDARD_BREAKERS[Min(fit)]

\* next((b for b in STANDARD_BREAKERS if b >= required), None); 0 stands
\* for None.
breaker_size(required) ==
    LET fit == {i \in DOMAIN STANDARD_BREAKERS :
                  ~Above(required, STANDARD_BREAKERS[i], 1)}
    IN  IF fit = {} THEN 0 ELSE STANDARD_BREAKERS[Min(fit)]

\* A selection that reads the single-core ampacities whatever the core
\* configuration is.
cable_index_single_core(cores, breaker) ==
    LET fit == {i \in DOMAIN CableSizes :
                  CABLE_CAPACITY("1C")[i] >= breaker * 10}
    IN  IF fit = {} THEN 0 ELSE Min(fit)

\* A selection that falls back to the largest cross-section when no
\* ampacity reaches the breaker rating.
cable_index_clamped(cores, breaker) ==
    LET fit == {i \in DOMAIN CableSizes :
                  CABLE_CAPACITY(cores)[i] >= breaker * 10}
    IN  IF fit = {} THEN Len(CableSizes) ELSE Min(fit)

\* Index in CableSizes of the first cross-section, ascending, whose
\* ampacity is >= the breaker rating (amperes); 0 stands for None.
cable_index(cores, breaker) ==
    LET fit == {i \in DOMAIN CableSizes :
                  CABLE_CAPACITY(cores)[i] >= breaker * 10}
    IN  IF fit = {} THEN 0 ELSE Min(fit)

(***************************************************************************)
(* charger_specs.py: calculate_requirements(charger_type, capacity,        *)
(* quantity, params)                                                       *)
(***************************************************************************)

\* The locals of a call once its four currents are formed: one record for
\* every side the load current and the derated current can lie on.  The
\* AC-side currents of an AC charger are the load currents themselves.
locals_of(voltage, phase, cores, current, derated_current, ac_current, derated_ac_current) ==
    {LET derated == WithSide(derated_current, sd)
         breaker == breaker_size(derated)
     IN  [voltage |-> voltage, phase |-> phase, cores |-> cores,
          current |-> WithSide(current, sc),
          ac_current |-> IF phase = "DC" THEN ac_current
                         ELSE WithSide(current, sc),
          derated_current |-> derated,
          derated_ac_current |-> IF phase = "DC" THEN derated_ac_current
                                 ELSE derated,
          breaker_size |-> breaker,
          cable |-> IF breaker = 0 THEN 0 ELSE cable_index(cores, breaker)] :
       sc \in Sides(current), sd \in Sides(derated_current)}

\* The locals of one call, before the result is built.  A product with the
\* safety factor is exact when the current is and the factor is a binary
\* fraction (1.25, 1.5).
requirements_locals(charger_type, capacity, params) ==
    LET single == charger_type = "AC" /\ capacity = 7
        three == charger_type = "AC" /\ capacity # 7
        voltage == IF single THEN 230
                   ELSE IF three THEN params.ac_voltage
                   ELSE params.dc_voltage
        phase == IF single THEN "Single" ELSE IF three THEN "Three" ELSE "DC"
        cores == IF three THEN "4C" ELSE "2C"
        exact == Dyadic(capacity * 1000, voltage)
        current ==
            IF three THEN AmpsRoot3(capacity * 1000, voltage)
            ELSE [Amps(capacity * 1000, voltage) EXCEPT !.exact = exact]
        derated_current ==
            IF three
            THEN AmpsRoot3(capacity * 10 * params.safety_factor, voltage)
            ELSE [Amps(capacity * 10 * params.safety_factor, voltage)
                    EXCEPT !.exact = exact /\ Dyadic(params.safety_factor, 100)]
        effpf == params.dc_efficiency * params.power_factor
    IN  locals_of(voltage, phase, cores, current, derated_current,
                  AcInputAmps(capacity * 100, effpf, params.ac_voltage),
                  AcInputAmps(capacity * params.safety_factor, effpf,
                              params.ac_voltage))

\* The breaker specification string, as its parts: standard, rating,
\* voltage shown and poles.
breaker_spec(charger_type, capacity, breaker, voltage, ac_label) ==
    IF charger_type = "AC"
    THEN IF capacity = 7
         THEN <<"AS/NZS 60898", "C-curve", breaker, 240, "AC", "1P">>
         ELSE <<"AS/NZS 60898", "C-curve", breaker, ac_label, "AC", "3P">>
    ELSE <<"AS/NZS 60947.2", breaker, voltage, "DC">>

\* The dictionary a successful call returns, from its locals; the
\* currents rounded to one decimal (tenths).
design(charger_type, capacity, l, ac_label) ==
    [ok |-> TRUE,
     Voltage |-> l.voltage,
     Phase |-> l.phase,
     FullLoadCurrent |-> Round1(l.current),
     DeratedCurrent |-> Round1(l.derated_current),
     ACInputCurrent |-> Round1(l.ac_current),
     DeratedACCurrent |-> Round1(l.derated_ac_current),
     BreakerSize |-> l.breaker_size,
     BreakerSpecs |-> breaker_spec(charger_type, capacity, l.breaker_size,
                                   l.voltage, ac_label),
     CableSize |-> CableSizes[l.cable],
     CableType |-> l.cores,
     CableCapacity |-> CABLE_CAPACITY(l.cores)[l.cable],
     CableConfiguration |-> l.cores,
     Power |-> capacity,
     ChargerType |-> charger_type]

\* What a call returns from its locals: None where a selection found
\* nothing.
result_of(charger_type, capacity, l, ac_label) ==
    IF l.breaker_size = 0 THEN None
    ELSE IF l.cable = 0 THEN None
    ELSE design(charger_type, capacity, l, ac_label)

\* The set of values the call can return: one, or one for every side a
\* current on a mark can lie on.
calculate_requirements(charger_type, capacity, quantity, params) ==
    {result_of(charger_type, capacity, l, params.ac_voltage) :
       l \in requirements_locals(charger_type, capacity, params)}

(***************************************************************************)
(* electrical_specs.py: calculate_requirements(charger_type, capacity,     *)
(* quantity), with the factors written into the code                       *)
(***************************************************************************)

requirements_locals_es(charger_type, capacity) ==
    LET single == charger_type = "AC" /\ capacity = 7
        three == charger_type = "AC" /\ capacity # 7
        voltage == IF single THEN VOLTAGE.AC[7]
                   ELSE IF three THEN VOLTAGE.AC[22]
                   ELSE VOLTAGE.DC[capacity]
        phase == IF single THEN "Single" ELSE IF three THEN "Three" ELSE "DC"
        cores == IF three THEN "4C" ELSE "2C"
        exact == Dyadic(capacity * 1000, voltage)
        current ==
            IF three THEN AmpsRoot3(capacity * 1000, voltage)
            ELSE [Amps(capacity * 1000, voltage) EXCEPT !.exact = exact]
        derated_current ==
            IF three THEN AmpsRoot3(capacity * 10 * 125, voltage)
            ELSE [Amps(capacity * 10 * 125, voltage) EXCEPT !.exact = exact]
    IN  locals_of(voltage, phase, cores, current, derated_current,
                  AcInputAmps(capacity * 100, 95 * 95, 400),
                  AcInputAmps(capacity * 125, 95 * 95, 400))

calculate_requirements_es(charger_type, capacity, quantity) ==
    {result_of(charger_type, capacity, l, 415) :
       l \in requirements_locals_es(charger_type, capacity)}

(***************************************************************************)
(* calculate_msb                                                           *)
(***************************************************************************)

RECURSIVE SumOver(_, _)
\* sum(f(charger) for charger in chargers), with f given as the sequence
\* of its values.
SumOver(values, n) ==
    IF n = 0 THEN 0 ELSE SumOver(values, n - 1) + values[n]

\* sum(charger["Derated AC Current (A)"] * charger["Quantity"] ...): the
\* entries hold the current rounded to one decimal, so the total is a
\* count of tenths.
total_derated_ac_current(chargers) ==
    SumOver([i \in DOMAIN chargers |->
               chargers[i].DeratedACCurrent * chargers[i].Quantity],
            Len(chargers))

total_power(chargers) ==
    SumOver([i \in DOMAIN chargers |->
               chargers[i].Power * chargers[i].Quantity],
            Len(chargers))

\* The total taken as the diversified current, the factor left out.
diversified_current_undiversified(total_tenths, diversity_factor) ==
    Float(<<total_tenths>>, <<10>>, FALSE, total_tenths * (Scale \div 10),
          FALSE)

\* The total divided by the diversity factor instead of multiplied.
diversified_current_divided(total_tenths, diversity_factor) ==
    Float(<<total_tenths, 10>>, <<diversity_factor>>, FALSE,
          MulDiv(total_tenths * (Scale \div 10), 100, diversity_factor),
          FALSE)

\* total_derated_ac_current * diversity_factor: tenths times hundredths
\* are thousandths of an ampere.
diversified_current(total_tenths, diversity_factor) ==
    Float(<<total_tenths, diversity_factor>>, <<1000>>, FALSE,
          total_tenths * diversity_factor * (Scale \div 1000), FALSE)

\* The sum and the product of calculate_msb carry no rounding error when
\* the list is empty, or when every current summed is a binary fraction
\* (x.0 or x.5) and so is the diversity factor.
msb_exact(chargers, diversity_factor) ==
    \/ chargers = <<>>
    \/ /\ Dyadic(diversity_factor, 100)
       /\ \A i \in DOMAIN chargers : chargers[i].DeratedACCurrent % 5 = 0

\* next((msb for msb in MSB_CONFIGS if msb["Busbar"] >= diversified), None),
\* as an index in MSB_CONFIGS; 0 stands for None.
msb_config(diversified) ==
    LET fit == {i \in DOMAIN MSB_CONFIGS :
                  ~Above(diversified, MSB_CONFIGS[i].Busbar, 1)}
    IN  IF fit = {} THEN 0 ELSE Min(fit)

\* math.ceil(diversified_current / 100) * 100
busbar_size(diversified) == CeilHundred(diversified)

\* What calculate_msb returns for a diversified current.
msb_result_of(chargers, total, diversity_factor, diversified) ==
    LET main_breaker == breaker_size(diversified)
        config == msb_config(diversified)
    IN  IF main_breaker = 0 THEN None
        ELSE IF config = 0 THEN None
        ELSE [ok |-> TRUE,
              TotalConnectedLoad |-> total_power(chargers),
              TotalDeratedACCurrent |-> total,
              DiversificationFactor |-> diversity_factor,
              DiversifiedCurrent |-> Round1(diversified),
              MainBreakerSize |-> main_breaker,
              RecommendedMSBSize |-> MSB_CONFIGS[config].Amps,
              BusbarRating |-> busbar_size(diversified),
              MSBDimensions |-> MSB_CONFIGS[config].Dimensions,
              MSBConfiguration |-> MSB_CONFIGS[config].Amps]

\* The body the two programs share; they differ in where the diversity
\* factor comes from.  The value is the set of results the call can
\* return: one, or one for every side a diversified current on a mark can
\* lie on.
msb_design(chargers, diversity_factor) ==
    LET total == total_derated_ac_current(chargers)
        diversified ==
            [diversified_current(total, diversity_factor)
               EXCEPT !.exact = msb_exact(chargers, diversity_factor)]
    IN  {msb_result_of(chargers, total, diversity_factor,
                       WithSide(diversified, s)) : s \in Sides(diversified)}

\* charger_specs.py
calculate_msb(chargers, params) ==
    msb_design(chargers, params.diversity_factor)

\* electrical_specs.py: diversity_factor = 0.9
calculate_msb_es(chargers) == msb_design(chargers, 90)

(***************************************************************************)
(* charger_specs.py: generate_sld                                          *)
(***************************************************************************)

\* Thresholds on the rounded "Diversified Current (A)" (tenths); the
\* result is a cross-section in mm2.
get_incomer_cable_size(msb_result) ==
    LET current == msb_result.DiversifiedCurrent
    IN  IF current <= 2500 THEN 120
        ELSE IF current <= 4000 THEN 185
        ELSE IF current <= 6000 THEN 300
        ELSE IF current <= 8000 THEN 400
        ELSE 500

\* CABLE_CAPACITY["4C"][cable_size], for a cross-section in mm2.
incomer_capacity(cable_size) ==
    LET i == CHOOSE j \in DOMAIN CableSizes : CableSizes[j] = cable_size * 10
    IN  CABLE_CAPACITY("4C")[i]

\* total_kva = load / power_factor, in kVA: exact when the power factor
\* is 1.0 or the load 0.
total_kva(load_kw, power_factor) ==
    Float(<<load_kw, 100>>, <<power_factor>>, FALSE,
          MulDiv(load_kw * 100, Scale, power_factor),
          load_kw = 0 \/ power_factor = 100)

\* max(math.ceil(total_kva / 100) * 100, 500): the set of ratings the
\* quotient can give (410 / 0.82 is 500.00000000000006 and gives 600).
trafo_rating(load_kw, power_factor) ==
    LET kva == total_kva(load_kw, power_factor)
    IN  {IF CeilHundred(WithSide(kva, s)) > 500
         THEN CeilHundred(WithSide(kva, s)) ELSE 500 : s \in Sides(kva)}

\* The graph for a transformer rating: its nodes in the order they are
\* added, and its edges with the cable data of each label (<<>> for an
\* edge without label).
sld_of(chargers, msb_result, trafo) ==
    LET cable_size == get_incomer_cable_size(msb_result)
        n == Len(chargers)
        breaker_node(i) ==
            [id |-> <<"CB", i - 1>>,
             kind |-> IF chargers[i].BreakerSize > 100 THEN "MCCB" ELSE "MCB",
             rating |-> chargers[i].BreakerSize,
             standard |-> IF chargers[i].ChargerType = "DC"
                          THEN "AS/NZS 60947.2" ELSE "AS/NZS 60898"]
        charger_node(i) ==
            [id |-> <<"CH", i - 1>>,
             number |-> i,
             power |-> chargers[i].Power,
             type |-> chargers[i].ChargerType,
             voltage |-> chargers[i].Voltage]
    IN  [trafo |-> trafo,
         evdb |-> [incomer |-> msb_result.MainBreakerSize,
                   busbar |-> msb_result.BusbarRating],
         incomer_edge |->
             [from |-> "TR", to |-> "EVDB",
              cores |-> "4C", size |-> cable_size * 10,
              capacity |-> incomer_capacity(cable_size)],
         breakers |-> [i \in 1..n |-> breaker_node(i)],
         chargers |-> [i \in 1..n |-> charger_node(i)],
         feeder_edges |->
             [i \in 1..n |-> [from |-> "EVDB", to |-> <<"CB", i - 1>>]],
         circuit_edges |->
             [i \in 1..n |->
                [from |-> <<"CB", i - 1>>, to |-> <<"CH", i - 1>>,
                 cores |-> chargers[i].CableType,
                 size |-> chargers[i].CableSize,
                 capacity |-> chargers[i].CableCapacity]]]

\* The set of graphs the call can return.
generate_sld(chargers, msb_result, params) ==
    {sld_of(chargers, msb_result, trafo) :
       trafo \in trafo_rating(msb_result.TotalConnectedLoad,
                              params.power_factor)}

(***************************************************************************)
(* State                                                                   *)
(***************************************************************************)

VARIABLES
    impl,        \* which program runs: "charger_specs" or "electrical_specs"
    params,      \* st.session_state.calculation_params
    chargers,    \* st.session_state.chargers / the list given to calculate_msb
    msb_result,  \* the value calculate_msb returned, None when not called
    msb_error,   \* "MSB calculation failed" is shown
    sld,         \* the graph generate_sld returned, None when not called
    add_error,   \* "Could not calculate for this configuration" is shown
    last,        \* the latest calculate_requirements call: inputs, locals, result
    pc           \* "session", or the step of the function pipeline

vars == <<impl, params, chargers, msb_result, msb_error, sld, add_error,
          last, pc>>

\* Bound of the model: the longest list of chargers.
MaxChargers == 3

Impls == {"charger_specs", "electrical_specs"}

\* initialize_session_state: the defaults of calculation_params.
DefaultParams ==
    [safety_factor |-> 125, diversity_factor |-> 90, dc_efficiency |-> 95,
     power_factor |-> 95, ac_voltage |-> 400, dc_voltage |-> 500]

\* The values tried for each st.number_input of the session, all within
\* its min_value and max_value.
ParamDomain ==
    [safety_factor |-> {125, 150}, diversity_factor |-> {90, 100},
     dc_efficiency |-> {95}, power_factor |-> {95},
     ac_voltage |-> {400, 230}, dc_voltage |-> {500, 1000}]

ParamNames == DOMAIN ParamDomain

\* The parameter sets the functions are called with, and one under which
\* a derated current is a ladder rating the program reaches with rounding
\* error (350 kW at 750 V and factor 1.35: 630.0000000000001 A).
ParamSets ==
    [safety_factor : {125, 150},
     diversity_factor : {90, 100},
     dc_efficiency : {95},
     power_factor : {95},
     ac_voltage : {400, 230},
     dc_voltage : {200, 500, 1000}]
    \cup {[safety_factor |-> 135, diversity_factor |-> 90,
            dc_efficiency |-> 95, power_factor |-> 95, ac_voltage |-> 400,
            dc_voltage |-> 750]}

ChargerTypes == {"AC", "DC"}

\* The capacities tried in the session, a part of the menu: the
\* single-phase and the three-phase AC charger and the largest DC charger.
Capacities(charger_type) ==
    IF charger_type = "AC" THEN {7, 22} ELSE {350}

\* The capacities the functions are called with: menu capacities of both
\* VOLTAGE rows, and 11 kW AC, which the menu does not offer and the
\* three-phase branch handles.
CallCapacities(charger_type) ==
    IF charger_type = "AC" THEN {7, 11, 22} ELSE {100, 150, 300, 350}

Quantities == {1, 2}

NoCall == [called |-> FALSE]

\* What the two programs compute for one sizing call: the set of values
\* it can return.
Sizing(program, charger_type, capacity, quantity, p) ==
    IF program = "charger_specs"
    THEN calculate_requirements(charger_type, capacity, quantity, p)
    ELSE calculate_requirements_es(charger_type, capacity, quantity)

SizingLocals(program, charger_type, capacity, p) ==
    IF program = "charger_specs"
    THEN requirements_locals(charger_type, capacity, p)
    ELSE requirements_locals_es(charger_type, capacity)

Aggregation(program, list, p) ==
    IF program = "charger_specs" THEN calculate_msb(list, p)
    ELSE calculate_msb_es(list)

\* The entry the Add Charger handler appends:
\* {"Type": ..., "Capacity (kW)": ..., "Quantity": ..., **result}
Entry(charger_type, capacity, quantity, result) ==
    [Type |-> charger_type, Capacity |-> capacity, Quantity |-> quantity]
        @@ result

\* What a call returns from its locals l.
SizingResult(program, charger_type, capacity, l, p) ==
    result_of(charger_type, capacity, l,
              IF program = "charger_specs" THEN p.ac_voltage ELSE 415)

\* The record of one call that ran with the locals l.
Call(program, charger_type, capacity, quantity, p, l) ==
    [called |-> TRUE, charger_type |-> charger_type, capacity |-> capacity,
     quantity |-> quantity, params |-> p,
     locals |-> l,
     result |-> SizingResult(program, charger_type, capacity, l, p)]

\* A removal that fills the place of the deleted entry with the last one,
\* which changes the order of the entries that stay.
PopSwap(list, index) ==
    [i \in 1..(Len(list) - 1) |->
        IF i = index + 1 THEN list[Len(list)] ELSE list[i]]

\* list.pop(index), index from 0
Pop(list, index) ==
    [i \in 1..(Len(list) - 1) |-> IF i <= index THEN list[i] ELSE list[i + 1]]

(***************************************************************************)
(* The session: one action is one script run, from the widget that         *)
(* triggered it to the end of the script.                                  *)
(***************************************************************************)

\* The end of every script run: the MSB section and the diagram.
\*   if st.session_state.chargers: msb_result = calculate_msb(...)
Display(program, list, p) ==
    LET msb == IF list = <<>> THEN {None} ELSE Aggregation(program, list, p)
    IN  /\ msb_result' \in msb
        /\ msb_error' = (list # <<>> /\ ~msb_result'.ok)
        /\ sld' \in IF msb_result'.ok /\ program = "charger_specs"
                    THEN generate_sld(list, msb_result', p) ELSE {None}

Init ==
    /\ impl \in Impls
    /\ params = DefaultParams
    /\ chargers = <<>>
    /\ msb_result = None
    /\ msb_error = FALSE
    /\ sld = None
    /\ add_error = FALSE
    /\ last = NoCall
    /\ pc = "session"

\* A st.number_input of the Calculation Parameters section gets a new
\* value; the script reruns from the top with the list as it is.
ChangeParam(name, value) ==
    /\ impl = "charger_specs"
    /\ value # params[name]
    /\ params' = [params EXCEPT ![name] = value]
    /\ add_error' = FALSE
    /\ Display(impl, chargers, params')
    /\ UNCHANGED <<impl, chargers, last, pc>>

\* The Charger Type radio, the Capacity selectbox or (electrical_specs.py)
\* the Quantity input gets a new value; the script reruns from the top.
\* st.button("Add Charger") is False in that run, so the handler does not
\* run and its message is not written again; the MSB section computes from
\* the same list and parameters what it computed in the run before.
ChangeSelection ==
    /\ add_error' = FALSE
    /\ Display(impl, chargers, params)
    /\ UNCHANGED <<impl, params, chargers, msb_result, sld, last, pc>>

\* An Add Charger handler that empties the list when the sizing fails.
AddChargerOrReset(charger_type, capacity, quantity) ==
    /\ Len(chargers) < MaxChargers
    /\ impl = "charger_specs" => quantity = 1
    /\ \E result \in Sizing(impl, charger_type, capacity, quantity, params) :
          LET list == IF result.ok
                      THEN Append(chargers, Entry(charger_type, capacity,
                                                  quantity, result))
                      ELSE <<>>
          IN  /\ chargers' = list
              /\ add_error' = ~result.ok
              /\ Display(impl, list, params)
    /\ UNCHANGED <<impl, params, last, pc>>

\* The Add Charger button.  charger_specs.py fixes quantity = 1;
\* electrical_specs.py reads it from a number input with min_value 1.
AddCharger(charger_type, capacity, quantity) ==
    /\ Len(chargers) < MaxChargers
    /\ impl = "charger_specs" => quantity = 1
    /\ \E result \in Sizing(impl, charger_type, capacity, quantity, params) :
          LET list == IF result.ok
                      THEN Append(chargers, Entry(charger_type, capacity,
                                                  quantity, result))
                      ELSE chargers
          IN  /\ chargers' = list
              /\ add_error' = ~result.ok
              /\ Display(impl, list, params)
    /\ UNCHANGED <<impl, params, last, pc>>

\* A Remove button of the Configured Chargers table (charger_specs.py).
RemoveCharger(index) ==
    /\ impl = "charger_specs"
    /\ index \in 0..(Len(chargers) - 1)
    /\ chargers' = Pop(chargers, index)
    /\ add_error' = FALSE
    /\ Display(impl, chargers', params)
    /\ UNCHANGED <<impl, params, last, pc>>

\* The Clear All Chargers button, shown while the list is not empty.
ClearAll ==
    /\ chargers # <<>>
    /\ chargers' = <<>>
    /\ add_error' = FALSE
    /\ Display(impl, chargers', params)
    /\ UNCHANGED <<impl, params, last, pc>>

Next ==
    \/ \E name \in ParamNames : \E value \in ParamDomain[name] :
          ChangeParam(name, value)
    \/ \E t \in ChargerTypes : \E c \in Capacities(t) :
          \E q \in Quantities : AddCharger(t, c, q)
    \/ \E index \in 0..(MaxChargers - 1) : RemoveCharger(index)
    \/ ClearAll
    \/ ChangeSelection

Spec == Init /\ [][Next]_vars

(***************************************************************************)
(* The functions called in sequence on inputs drawn from the sets above:   *)
(* calculate_requirements for each charger, calculate_msb on the designs   *)
(* obtained (the empty list included), generate_sld on the result.         *)
(***************************************************************************)

InitCalls ==
    /\ impl \in Impls
    /\ params \in (IF impl = "charger_specs" THEN ParamSets
                   ELSE {DefaultParams})
    /\ chargers = <<>>
    /\ msb_result = None
    /\ msb_error = FALSE
    /\ sld = None
    /\ add_error = FALSE
    /\ last = NoCall
    /\ pc = "sizing"

CallRequirements(charger_type, capacity, quantity) ==
    /\ pc = "sizing"
    /\ Len(chargers) < MaxChargers
    /\ \E l \in SizingLocals(impl, charger_type, capacity, params) :
          last' = Call(impl, charger_type, capacity, quantity, params, l)
    /\ chargers' = IF last'.result.ok
                   THEN Append(chargers, Entry(charger_type, capacity,
                                               quantity, last'.result))
                   ELSE chargers
    /\ UNCHANGED <<impl, params, msb_result, msb_error, sld, add_error, pc>>

CallMsb ==
    /\ pc = "sizing"
    /\ msb_result' \in Aggregation(impl, chargers, params)
    /\ pc' = "aggregated"
    /\ UNCHANGED <<impl, params, chargers, msb_error, sld, add_error, last>>

CallSld ==
    /\ pc = "aggregated"
    /\ impl = "charger_specs"
    /\ msb_result.ok
    /\ sld' \in generate_sld(chargers, msb_result, params)
    /\ pc' = "rendered"
    /\ UNCHANGED <<impl, params, chargers, msb_result, msb_error, add_error,
                   last>>

NextCalls ==
    \/ \E t \in ChargerTypes : \E c \in CallCapacities(t) :
          \E q \in Quantities : CallRequirements(t, c, q)
    \/ CallMsb
    \/ CallSld

SpecCalls == InitCalls /\ [][NextCalls]_vars

(***************************************************************************)
(* Properties of calculate_requirements, on the latest call (SpecCalls)    *)
(***************************************************************************)

\* C1: whenever calculate_requirements returns a design, the breaker rating
\* is a member of the standard ladder, it is >= the unrounded derated load
\* current (the binary value the program holds), and no smaller member of
\* the ladder is >= that current.
BreakerSufficientAndMinimal ==
    (last.called /\ last.result.ok) =>
        LET b == last.result.BreakerSize
            derated == last.locals.derated_current
        IN  /\ InLadder(b)
            /\ ~Above(derated, b, 1)
            /\ \A i \in DOMAIN STANDARD_BREAKERS :
                  STANDARD_BREAKERS[i] < b =>
                      Above(derated, STANDARD_BREAKERS[i], 1)

\* C1, its boundary case: a design whose derated current is exactly a
\* ladder rating (100 kW at 500 V DC and factor 1.25 is 250 A).
BreakerAtLadderRating ==
    /\ last.called
    /\ last.result.ok
    /\ Sign(last.locals.derated_current, last.result.BreakerSize, 1) = 0

\* C2: the cable of a returned design comes from the ampacity table of the
\* resolved core configuration (4C for three-phase AC, 2C otherwise), its
\* ampacity is >= the breaker rating, and no smaller cross-section of that
\* table has an ampacity >= the breaker rating.
CableSufficientAndMinimal ==
    (last.called /\ last.result.ok) =>
        LET r == last.result
            cores == IF r.Phase = "Three" THEN "4C" ELSE "2C"
            table == CABLE_CAPACITY(cores)
        IN  /\ r.CableType = cores
            /\ r.CableConfiguration = cores
            /\ \E i \in DOMAIN CableSizes :
                  CableSizes[i] = r.CableSize /\ table[i] = r.CableCapacity
            /\ r.CableCapacity >= r.BreakerSize * 10
            /\ \A i \in DOMAIN CableSizes :
                  CableSizes[i] < r.CableSize => table[i] < r.BreakerSize * 10

\* C2, the case that tells the breaker rating from the derated current: a
\* smaller cross-section would carry the derated current and not the
\* breaker rating.
CableSizedForBreaker ==
    /\ last.called
    /\ last.result.ok
    /\ \E i \in DOMAIN CableSizes :
          /\ ~Above(last.locals.derated_current,
                    CABLE_CAPACITY(last.locals.cores)[i], 10)
          /\ CABLE_CAPACITY(last.locals.cores)[i] < last.result.BreakerSize * 10

\* The largest ampacity of a core configuration's table.
MaxAmpacity(cores) ==
    LET table == CABLE_CAPACITY(cores)
    IN  CHOOSE a \in {table[i] : i \in DOMAIN table} :
            \A i \in DOMAIN table : table[i] <= a

\* C3: when the derated load current exceeds the largest ladder rating
\* (2000 A), or the breaker selected exceeds the largest ampacity of the
\* resolved core configuration, the call returns the failure value; a
\* returned design never carries a rating below what it protects.
FailureBeyondTables ==
    last.called =>
        LET l == last.locals
        IN  /\ (\/ Above(l.derated_current, 2000, 1)
                \/ l.breaker_size * 10 > MaxAmpacity(l.cores))
               => ~last.result.ok
            /\ last.result.ok =>
                  /\ ~Above(l.derated_current, last.result.BreakerSize, 1)
                  /\ last.result.CableCapacity >= last.result.BreakerSize * 10

\* C3, its case: a call whose derated current is above 2000 A (350 kW at
\* 200 V DC) and that failed.
FailedAboveLadder ==
    /\ last.called
    /\ Above(last.locals.derated_current, 2000, 1)
    /\ ~last.result.ok

\* Two decimals of a current of x units, in hundredths.
Round2(x) == (x + Scale \div 200) \div (Scale \div 100)

\* The latest call sized a 22 kW AC charger under the default parameters.
ScenarioBCall ==
    /\ last.called
    /\ last.charger_type = "AC"
    /\ last.capacity = 22
    /\ last.params = DefaultParams

\* C5 as the specification states it: 22 kW three-phase AC under the
\* default parameters gives 31.75 A, 39.69 A derated, a 40 A breaker and a
\* 4-core cable of 10 mm2 with 49 A.
ScenarioBTenSquare ==
    ScenarioBCall =>
        /\ last.result.ok
        /\ Round2(last.locals.current.units) = 3175
        /\ Round2(last.locals.derated_current.units) = 3969
        /\ last.result.BreakerSize = 40
        /\ last.result.CableType = "4C"
        /\ last.result.CableSize = 100
        /\ last.result.CableCapacity = 490

\* C5, amended: the same scenario gives 31.75 A, 39.69 A derated, a 40 A
\* breaker and a 4-core cable of 16 mm2 with 49 A (10 mm2 carries 37 A).
ScenarioBSixteenSquare ==
    ScenarioBCall =>
        /\ last.result.ok
        /\ Round2(last.locals.current.units) = 3175
        /\ Round2(last.locals.derated_current.units) = 3969
        /\ last.result.BreakerSize = 40
        /\ last.result.CableType = "4C"
        /\ last.result.CableSize = 160
        /\ last.result.CableCapacity = 490

\* C5, its case: the scenario was sized and a design came back.
ScenarioBSized == ScenarioBCall /\ last.result.ok

(***************************************************************************)
(* Properties of calculate_msb and generate_sld (SpecCalls)                *)
(***************************************************************************)

\* The diversity factor calculate_msb applies.
DiversityFactor ==
    IF impl = "charger_specs" THEN params.diversity_factor ELSE 90

\* The locals of the sizing call for a type and a capacity under the
\* parameters in force (the sides left aside).
LocalsFor(charger_type, capacity) ==
    CHOOSE l \in SizingLocals(impl, charger_type, capacity, params) : TRUE

\* The derated AC current of entry i before it is rounded, in units:
\* what the sizing call for its type and capacity computes.
DeratedAcUnrounded(i) ==
    LocalsFor(chargers[i].Type, chargers[i].Capacity).derated_ac_current.units

\* The diversified current calculate_msb computes from the list.
DiversifiedValue ==
    [diversified_current(total_derated_ac_current(chargers), DiversityFactor)
       EXCEPT !.exact = msb_exact(chargers, DiversityFactor)]

\* C4: for a list calculate_msb was called on, with diversified current
\* (sum of derated AC current x quantity over the entries) x diversity
\* factor: the result is the failure value if no ladder rating or no
\* busbar rating is >= the diversified current; otherwise it carries that
\* current, the smallest ladder rating >= it, and the first board of the
\* catalogue whose busbar rating is >= it.  Where the real product is a
\* rating, ">=" is read on the binary product, which lies on one of the
\* sides it can lie on.
MsbSelections ==
    pc # "sizing" =>
        LET total == SumOver([i \in DOMAIN chargers |->
                                chargers[i].DeratedACCurrent
                                    * chargers[i].Quantity],
                             Len(chargers))
            milli == total * DiversityFactor
            ratings == {STANDARD_BREAKERS[i] : i \in DOMAIN STANDARD_BREAKERS}
            fits(rating, side) ==
                rating * 1000 > milli \/ (rating * 1000 = milli /\ side <= 0)
            selected(side) ==
                LET ladder_fit == {b \in ratings : fits(b, side)}
                    board_fit == {i \in DOMAIN MSB_CONFIGS :
                                    fits(MSB_CONFIGS[i].Busbar, side)}
                IN  IF ladder_fit = {} \/ board_fit = {}
                    THEN ~msb_result.ok
                    ELSE /\ msb_result.ok
                         /\ msb_result.TotalDeratedACCurrent = total
                         /\ msb_result.DiversifiedCurrent * 100 - milli
                               \in -50..50
                         /\ msb_result.MainBreakerSize = Min(ladder_fit)
                         /\ msb_result.RecommendedMSBSize
                               = MSB_CONFIGS[Min(board_fit)].Amps
                         /\ msb_result.MSBDimensions
                               = MSB_CONFIGS[Min(board_fit)].Dimensions
        IN  \E side \in Sides(DiversifiedValue) : selected(side)

\* C4, its case: a list of two entries, one of quantity 2, aggregated under
\* a diversity factor below 1 into a breaker and a board of different
\* ratings.
MsbSelected ==
    /\ pc = "aggregated"
    /\ msb_result.ok
    /\ Len(chargers) = 2
    /\ \E i \in DOMAIN chargers : chargers[i].Quantity = 2
    /\ DiversityFactor < 100
    /\ msb_result.MainBreakerSize # msb_result.RecommendedMSBSize

\* C6 as the specification states it: calculate_msb diversifies the sum of
\* the unrounded derated AC currents x quantity, so the main breaker and
\* the board's busbar are never below the true diversified current, and
\* the diversified current shown is the true one rounded.
AggregatesFullPrecision ==
    (pc # "sizing" /\ msb_result.ok) =>
        LET true_total == SumOver([i \in DOMAIN chargers |->
                                     DeratedAcUnrounded(i)
                                         * chargers[i].Quantity],
                                  Len(chargers))
            true_diversified == MulDiv(true_total, DiversityFactor, 100)
        IN  /\ msb_result.MainBreakerSize * Scale >= true_diversified
            /\ msb_result.RecommendedMSBSize * Scale >= true_diversified
            /\ msb_result.DiversifiedCurrent * (Scale \div 10) - true_diversified
                  \in (0 - Scale \div 20)..(Scale \div 20)

\* C8 as the specification states it: calculate_msb on the empty list
\* returns a no-load result or a design whose main breaker and board are
\* zero.
EmptyListNoLoad ==
    (pc = "aggregated" /\ chargers = <<>>) =>
        \/ ~msb_result.ok
        \/ /\ msb_result.MainBreakerSize = 0
           /\ msb_result.RecommendedMSBSize = 0

\* The cable data of an edge or of a design.
CableData(cores, size, capacity) ==
    [cores |-> cores, size |-> size, capacity |-> capacity]

\* C9 as the specification states it: the graph is transformer -> board ->
\* breaker i -> charger i in list order, and the cable data on every edge,
\* the transformer-to-board edge included, is cable data of a design
\* generate_sld was given.
SldRestatesDesigns ==
    pc = "rendered" =>
        LET given == {CableData(chargers[i].CableType, chargers[i].CableSize,
                                chargers[i].CableCapacity) :
                        i \in DOMAIN chargers}
        IN  /\ sld.incomer_edge.from = "TR" /\ sld.incomer_edge.to = "EVDB"
            /\ Len(sld.circuit_edges) = Len(chargers)
            /\ \A i \in DOMAIN chargers :
                  /\ sld.feeder_edges[i] =
                        [from |-> "EVDB", to |-> sld.breakers[i].id]
                  /\ sld.circuit_edges[i].from = sld.breakers[i].id
                  /\ sld.circuit_edges[i].to = sld.chargers[i].id
                  /\ sld.chargers[i].power = chargers[i].Power
                  /\ CableData(sld.circuit_edges[i].cores,
                               sld.circuit_edges[i].size,
                               sld.circuit_edges[i].capacity)
                        = CableData(chargers[i].CableType,
                                    chargers[i].CableSize,
                                    chargers[i].CableCapacity)
            /\ CableData(sld.incomer_edge.cores, sld.incomer_edge.size,
                         sld.incomer_edge.capacity) \in given

\* C10: for two capacities of the same charger type and phase that were
\* both sized under the same parameters, the larger capacity has a load
\* current and a breaker rating >= those of the smaller one.
Monotonicity ==
    \A i, j \in DOMAIN chargers :
        (/\ chargers[i].Type = chargers[j].Type
         /\ chargers[i].Phase = chargers[j].Phase
         /\ chargers[i].Capacity < chargers[j].Capacity)
        => /\ LocalsFor(chargers[i].Type, chargers[i].Capacity).current.units
                <= LocalsFor(chargers[j].Type,
                             chargers[j].Capacity).current.units
           /\ chargers[i].FullLoadCurrent <= chargers[j].FullLoadCurrent
           /\ chargers[i].BreakerSize <= chargers[j].BreakerSize

\* C10, its case: electrical_specs.py sized a 150 kW and a 300 kW DC
\* charger, which the VOLTAGE table puts at 500 V and at 750 V.
SizedAcrossVoltageRows ==
    /\ impl = "electrical_specs"
    /\ Len(chargers) = 2
    /\ chargers[1].Type = "DC" /\ chargers[1].Capacity = 150
    /\ chargers[2].Type = "DC" /\ chargers[2].Capacity = 300

(***************************************************************************)
(* Property of the session (Spec)                                          *)
(***************************************************************************)

\* The entries calculate_requirements gives for the type, capacity and
\* quantity of entry i under the parameters now in force.
FreshDesigns(i) ==
    {Entry(chargers[i].Type, chargers[i].Capacity, chargers[i].Quantity,
           result) :
       result \in Sizing(impl, chargers[i].Type, chargers[i].Capacity,
                         chargers[i].Quantity, params)}

\* C7 as the specification states it: after any sequence of add, remove,
\* clear and parameter changes, every design of the list equals what
\* calculate_requirements returns for its type and capacity under the
\* current parameters, and the MSB design shown is aggregated from those.
DesignsFollowParameters ==
    /\ \A i \in DOMAIN chargers : chargers[i] \in FreshDesigns(i)
    /\ chargers # <<>> => msb_result \in Aggregation(impl, chargers, params)

(***************************************************************************)
(* Further properties of calculate_msb (SpecCalls)                         *)
(***************************************************************************)

\* The diversified current calculate_msb computes from the list, in units.
DiversifiedUnits == DiversifiedValue.units

\* C11: for a non-failing calculate_msb result under a diversity factor
\* <= 1, the diversified current is <= the total derated AC current, as
\* computed and as reported to one decimal.
DiversityNeverIncreases ==
    (pc # "sizing" /\ msb_result.ok /\ DiversityFactor <= 100) =>
        /\ DiversifiedUnits
              <= msb_result.TotalDeratedACCurrent * (Scale \div 10)
        /\ msb_result.DiversifiedCurrent <= msb_result.TotalDeratedACCurrent

\* C11, its sharpest case: a factor below 1, a product exactly between two
\* tenths, and the upper of the two reported.
DiversifiedRoundedUp ==
    /\ pc = "aggregated"
    /\ msb_result.ok
    /\ DiversityFactor < 100
    /\ DiversifiedUnits % (Scale \div 10) = Scale \div 20
    /\ msb_result.DiversifiedCurrent * (Scale \div 10) > DiversifiedUnits

(***************************************************************************)
(* Further properties of the session (Spec)                                *)
(***************************************************************************)

\* The list after the entry at position k (from 1) is deleted and the
\* others keep their order.
Without(list, k) ==
    [i \in 1..(Len(list) - 1) |-> IF i < k THEN list[i] ELSE list[i + 1]]

\* C12: the list of chargers changes only through add, remove and clear.
\* A successful add appends exactly one entry, the design with its type,
\* capacity and quantity, at the end; a failed add and a parameter change
\* leave the list as it is; remove at index i deletes exactly that entry
\* and keeps the order of the others; clear empties the list.  The calls
\* of calculate_msb and generate_sld that end every script run alter no
\* entry, and a run started by the type, capacity or quantity widget
\* leaves the list as it is.
ListFrame ==
    [][/\ \A t \in ChargerTypes : \A c \in Capacities(t) :
             \A q \in Quantities :
                AddCharger(t, c, q) =>
                    \E result \in Sizing(impl, t, c, q, params) :
                        IF result.ok
                        THEN chargers' =
                                Append(chargers,
                                       [Type |-> t, Capacity |-> c,
                                        Quantity |-> q] @@ result)
                        ELSE chargers' = chargers
       /\ \A index \in 0..(MaxChargers - 1) :
             RemoveCharger(index) => chargers' = Without(chargers, index + 1)
       /\ ClearAll => chargers' = <<>>
       /\ \A name \in ParamNames : \A value \in ParamDomain[name] :
             ChangeParam(name, value) => chargers' = chargers
       /\ ChangeSelection => chargers' = chargers
       /\ chargers' # chargers =>
             \/ \E t \in ChargerTypes : \E c \in Capacities(t) :
                   \E q \in Quantities : AddCharger(t, c, q)
             \/ \E index \in 0..(MaxChargers - 1) : RemoveCharger(index)
             \/ ClearAll
      ]_vars

\* C12, its case: a list of three entries, from which a removal leaves two
\* whose order is to be kept, with two identical entries held as two
\* entries around a different one.
DuplicateEntriesKept ==
    /\ Len(chargers) = 3
    /\ chargers[1] = chargers[3]
    /\ chargers[1] # chargers[2]

\* C13: an add whose sizing fails leaves the list exactly as it was and
\* shows the error; an add that follows it, of a charger that sizes,
\* appends its entry as after any other run (and 7 kW AC does size); and
\* when calculate_msb fails for the list, no MSB design and no diagram is
\* produced for it.
FailuresLeaveNoPartialResult ==
    /\ [][\A t \in ChargerTypes : \A c \in Capacities(t) :
             \A q \in Quantities :
                AddCharger(t, c, q) =>
                    \E result \in Sizing(impl, t, c, q, params) :
                        IF result.ok
                        THEN /\ chargers' =
                                   Append(chargers, Entry(t, c, q, result))
                             /\ ~add_error'
                        ELSE /\ chargers' = chargers
                             /\ add_error']_vars
    /\ [](add_error =>
             /\ Len(chargers) < MaxChargers
             /\ \A result \in Sizing(impl, "AC", 7, 1, params) : result.ok)
    /\ [](chargers # <<>> =>
             /\ msb_result \in Aggregation(impl, chargers, params)
             /\ ~msb_result.ok =>
                   (msb_error /\ msb_result = None /\ sld = None))

\* C13, its case: a failed add on a list that holds an entry.
FailedAddOnList ==
    /\ add_error
    /\ Len(chargers) = 1

(***************************************************************************)
(* Properties of the selections of calculate_msb (SpecCalls)               *)
(***************************************************************************)

\* The busbar rating of the catalogue board of a rated current.
BoardBusbar(amps) ==
    LET i == CHOOSE j \in DOMAIN MSB_CONFIGS : MSB_CONFIGS[j].Amps = amps
    IN  MSB_CONFIGS[i].Busbar

\* C14 as stated: for a non-failing calculate_msb result, the main breaker
\* rating is <= the rated current of the recommended board, and the busbar
\* rating ceil(diversified / 100) x 100 is <= that board's busbar rating.
BreakerWithinBoard ==
    (pc # "sizing" /\ msb_result.ok) =>
        /\ msb_result.MainBreakerSize <= msb_result.RecommendedMSBSize
        /\ msb_result.BusbarRating
              <= BoardBusbar(msb_result.RecommendedMSBSize)

\* C15 as stated: under the default parameters calculate_requirements
\* returns a design for every capacity the input menu offers, in both
\* programs.
MenuCapacitiesSized ==
    (/\ last.called
     /\ last.params = DefaultParams
     /\ last.capacity \in MenuCapacities(last.charger_type))
    => last.result.ok

\* C16: in calculate_msb the board check cannot fail where the breaker
\* check passes: a diversified current without a board has no breaker
\* either, every failure is the breaker's, every successful aggregation has
\* a diversified current <= 2000 A, and the 2500 A and 3000 A boards are
\* never selected.
BreakerFailsFirst ==
    pc # "sizing" =>
        /\ \A s \in Sides(DiversifiedValue) :
              msb_config(WithSide(DiversifiedValue, s)) = 0
                  => breaker_size(WithSide(DiversifiedValue, s)) = 0
        /\ ~msb_result.ok =>
              \E s \in Sides(DiversifiedValue) :
                  breaker_size(WithSide(DiversifiedValue, s)) = 0
        /\ msb_result.ok =>
              /\ ~Above(DiversifiedValue, 2000, 1)
              /\ msb_result.RecommendedMSBSize \notin {2500, 3000}

\* C16, its case: an aggregation that failed on a diversified current
\* above the largest busbar rating (3000 A).
FailedAboveCatalogue ==
    /\ pc = "aggregated"
    /\ ~msb_result.ok
    /\ DiversifiedUnits > 3000 * Scale

====
